---- MODULE Spec2Model ----
(***************************************************************************)
(* Model of the lead lifecycle, query and export handlers of               *)
(* complete_flask_crm.py (Flask + Flask-SQLAlchemy on SQLite).             *)
(*                                                                         *)
(* Conventions.  A Python str is a sequence of one-character strings, so   *)
(* that strip() and the strptime() formats are computed, not assumed.      *)
(* A date string is the token sequence <<year, "-", month, "-", day>> and  *)
(* a time string <<hour, ":", minute>>, each number the run of its digits  *)
(* (<<0, 3>> for "03", <<3>> for "3").  A nullable column holds <<>>       *)
(* (NULL) or <<v>>.  A datetime is a number of clock ticks since           *)
(* EpochDate 00:00:00; TicksPerSec ticks make a second (datetime.utcnow    *)
(* has sub-second resolution) and SecsPerDay seconds make a day, the last  *)
(* second of a day being the one strptime(...).replace(hour=23,minute=59,  *)
(* second=59) names.                                                       *)
(***************************************************************************)
EXTENDS Integers, Sequences, FiniteSets, TLC

VARIABLES
    leads,    \* the rows of the lead table, in the order of their id
    users,    \* the rows of the user table, in the order of their id
    now,      \* the wall clock, in ticks
    out,      \* the response to the request that just ended, until it is sent
    txn,      \* per worker, the unit of work its request has not committed yet
    commits   \* the number of write transactions committed
vars == <<leads, users, now, out, txn, commits>>

\* ------------------------------------------------------------- bounds
MaxLeads    == 2   \* rows of the lead table
MaxTime     == 1   \* ticks of the clock in a behaviour
MaxCommits  == 3   \* committed write transactions of a behaviour
TicksPerSec == 2   \* clock readings within one second
SecsPerDay  == 2   \* seconds of a day (the last one is 23:59:59)

TicksPerDay == TicksPerSec * SecsPerDay

\* 23:59:59.000000 as a tick of the day: replace(hour=23, minute=59, second=59)
EndOfDay == (SecsPerDay - 1) * TicksPerSec

\* The server starts in the last second of EpochDate.
ClockStart == EndOfDay
LastTick == ClockStart + MaxTime

\* ------------------------------------------------------------- values
NULL == <<>>
Some(v) == <<v>>
IsNull(x) == x = <<>>

Whitespace == {" "}

RECURSIVE LStrip(_)
LStrip(s) == IF s # <<>> /\ Head(s) \in Whitespace THEN LStrip(Tail(s)) ELSE s

RECURSIVE RStrip(_)
RStrip(s) ==
    IF s # <<>> /\ s[Len(s)] \in Whitespace THEN RStrip(SubSeq(s, 1, Len(s) - 1)) ELSE s

\* str.strip()
Strip(s) == RStrip(LStrip(s))


\* ------------------------------------------------------ dates and times
IsLeap(y) == (y % 4 = 0 /\ y % 100 # 0) \/ y % 400 = 0

DaysInMonth(y, m) ==
    IF m \in {4, 6, 9, 11} THEN 30
    ELSE IF m = 2 THEN (IF IsLeap(y) THEN 29 ELSE 28)
    ELSE 31

\* int() of a run of digits
RECURSIVE NumberOf(_)
NumberOf(ds) ==
    IF ds = <<>> THEN 0
    ELSE 10 * NumberOf(SubSeq(ds, 1, Len(ds) - 1)) + ds[Len(ds)]

\* the digits of n, zero-padded to the width w
RECURSIVE TenTo(_)
TenTo(k) == IF k = 0 THEN 1 ELSE 10 * TenTo(k - 1)
Padded(n, w) == [k \in 1..w |-> (n \div TenTo(w - k)) % 10]

\* datetime.strptime(s, "%Y-%m-%d") succeeds: %Y takes four digits, %m and
\* %d one or two
ValidDate(s) ==
    /\ Len(s) = 5
    /\ s[2] = "-" /\ s[4] = "-"
    /\ Len(s[1]) = 4 /\ Len(s[3]) \in 1..2 /\ Len(s[5]) \in 1..2
    /\ NumberOf(s[1]) \in 1..9999
    /\ NumberOf(s[3]) \in 1..12
    /\ NumberOf(s[5]) \in 1..DaysInMonth(NumberOf(s[1]), NumberOf(s[3]))

\* datetime.strptime(s, "%Y-%m-%d").date()
ParseDate(s) ==
    [year |-> NumberOf(s[1]), month |-> NumberOf(s[3]), day |-> NumberOf(s[5])]

\* datetime.strptime(s, "%H:%M") succeeds: %H and %M take one or two digits
ValidTime(s) ==
    /\ Len(s) = 3
    /\ s[2] = ":"
    /\ Len(s[1]) \in 1..2 /\ Len(s[3]) \in 1..2
    /\ NumberOf(s[1]) \in 0..23
    /\ NumberOf(s[3]) \in 0..59

\* datetime.strptime(s, "%H:%M").time()
ParseTime(s) == [hour |-> NumberOf(s[1]), minute |-> NumberOf(s[3])]

\* d.strftime("%Y-%m-%d")
FormatDate(d) == <<Padded(d.year, 4), "-", Padded(d.month, 2), "-", Padded(d.day, 2)>>

\* t.strftime("%H:%M")
FormatTime(t) == <<Padded(t.hour, 2), ":", Padded(t.minute, 2)>>

\* `strptime(x, fmt) if x else None`: <<TRUE, value>> or <<FALSE>> when it raises
OptDate(s) ==
    IF s = <<>> THEN <<TRUE, NULL>>
    ELSE IF ValidDate(s) THEN <<TRUE, Some(ParseDate(s))>>
    ELSE <<FALSE>>

OptTime(s) ==
    IF s = <<>> THEN <<TRUE, NULL>>
    ELSE IF ValidTime(s) THEN <<TRUE, Some(ParseTime(s))>>
    ELSE <<FALSE>>

\* The day the clock's tick 0 falls on; the modelled ticks stay in its month.
EpochDate == [year |-> 2024, month |-> 3, day |-> 1]

\* the calendar date and the tick-of-day of a datetime
DateOfTick(t) == [EpochDate EXCEPT !.day = @ + (t \div TicksPerDay)]
TickOfDay(t) == t % TicksPerDay

DateLeq(a, b) ==
    \/ a.year < b.year
    \/ a.year = b.year /\ a.month < b.month
    \/ a.year = b.year /\ a.month = b.month /\ a.day <= b.day

\* datetime comparison; a datetime is <<date, tick of day>>
DateTimeLeq(a, b) ==
    \/ a[1] # b[1] /\ DateLeq(a[1], b[1])
    \/ a[1] = b[1] /\ a[2] <= b[2]

\* A second datetime.utcnow() of the same statement: the clock may have moved
\* on by then
ClockRead(t) == {u \in t..(t + 1) : u <= LastTick}


\* ------------------------------------------------------------ sessions
\* The Flask session is a signed cookie the request carries: an input.
Anonymous == [user_id |-> NULL, role |-> NULL]
StaffSession == [user_id |-> Some(2), role |-> Some("bd")]
AdminSession == [user_id |-> Some(1), role |-> Some("admin")]
Sessions == {Anonymous, StaffSession}

\* login_required lets the request through
LoggedIn(sess) == ~IsNull(sess.user_id)

\* ----------------------------------------------------------- responses
\* What the request answers: the handler, its flash message (by kind) and,
\* for an export, the rows of the sheet.
Flash(op, msg) == [op |-> op, status |-> msg, detail |-> "", doc |-> <<>>]
\* flash(f"Error ...: {str(e)}"): the message names the exception
Error(op, exc) == [op |-> op, status |-> "error", detail |-> exc, doc |-> <<>>]
Document(op, rows) == [op |-> op, status |-> "document", detail |-> "", doc |-> rows]
\* a page that lists rows of a table
Listing(op, rows) == [op |-> op, status |-> "listing", detail |-> "", doc |-> rows]
NoResponse == Flash("none", "none")
\* redirect(url_for("login")), whatever the route
ToLogin == Flash("login_required", "login")
Result(ls, t, o) == [leads |-> ls, now |-> t, out |-> o]

\* ------------------------------------------------------- units of work
\* What a handler leaves in db.session when it reaches db.session.commit(),
\* or the answer it gives without one.
Answer(o) == [kind |-> "answer", out |-> o]
Insert(op, lead, done) == [kind |-> "insert", op |-> op, lead |-> lead, done |-> done]
\* `loaded` holds the values the session loaded for the attributes it sets
Update(op, i, row, set, done) ==
    [kind |-> "update", op |-> op, row |-> i,
     loaded |-> [f \in DOMAIN set |-> row[f]], set |-> set, done |-> done]
InsertUser(op, user, done) == [kind |-> "insert_user", op |-> op, user |-> user, done |-> done]
NoTxn == [kind |-> "idle"]

\* ---------------------------------------------------------- lead table
\* str(uuid.uuid4())[:8].upper(): the leading block of the uuid, the rest
\* of it is cut off
Upper(s) ==
    [i \in DOMAIN s |->
        CASE s[i] = "a" -> "A" [] s[i] = "b" -> "B" [] s[i] = "c" -> "C"
          [] s[i] = "d" -> "D" [] s[i] = "e" -> "E" [] s[i] = "f" -> "F"
          [] OTHER -> s[i]]

LeadIdOf(uuid) == Upper(uuid.head)

\* Lead(...) as new_lead builds it; the columns the constructor does not name
\* are NULL or take their column default (False) at the INSERT
NewLead(form, uuid, md, mt) ==
    [lead_id           |-> LeadIdOf(uuid),
     architect_name    |-> Strip(form.architect_name),
     firm_name         |-> Strip(form.firm_name),
     grade             |-> form.grade,
     client_type       |-> form.client_type,
     bd_name           |-> Strip(form.bd_name),
     meeting_date      |-> md,
     meeting_time      |-> mt,
     remark            |-> Strip(form.remark),
     assigned_to       |-> NULL,
     reschedule_date   |-> NULL,
     reschedule_time   |-> NULL,
     reschedule_remark |-> NULL,
     not_interested    |-> FALSE,
     require_letter    |-> FALSE,
     email_catalogue   |-> FALSE,
     quotation_sent    |-> FALSE]

\* the two defaults taken the other way round
StampSwapped(lead, t1, t2) == lead @@ [created_at |-> t2, updated_at |-> t1]

\* created_at and updated_at both have default=datetime.utcnow: each default
\* is one call of the clock, created_at's first
Stamp(lead, t1, t2) == lead @@ [created_at |-> t1, updated_at |-> t2]

\* a lead_id column without unique=True
AnyLeadId(ls, lead) == TRUE

\* lead_id is unique=True: the INSERT of a row whose lead_id is taken raises
UniqueLeadId(ls, lead) == \A i \in 1..Len(ls) : ls[i].lead_id # lead.lead_id

\* Lead.query.filter_by(lead_id=lead_id).first(): the row's index, 0 for None
FindLead(ls, lead_id) ==
    IF \E i \in 1..Len(ls) : ls[i].lead_id = lead_id
    THEN CHOOSE i \in 1..Len(ls) :
            /\ ls[i].lead_id = lead_id
            /\ \A j \in 1..(i - 1) : ls[j].lead_id # lead_id
    ELSE 0

\* The attributes the flush writes: those whose value differs from the loaded
\* one (an attribute set to the value it has is no change)
Changed(loaded, set) == {f \in DOMAIN set : loaded[f] # set[f]}

\* an UPDATE that writes created_at as well, as if it had onupdate too
ExecUpdateRestamp(row, set, cols, t) ==
    [f \in DOMAIN row |->
        IF f \in cols THEN set[f]
        ELSE IF f \in {"created_at", "updated_at"} THEN t
        ELSE row[f]]

\* UPDATE lead SET <changed columns>, updated_at=utcnow() WHERE id = <row>:
\* updated_at has onupdate=datetime.utcnow
ExecUpdate(row, set, cols, t) ==
    [f \in DOMAIN row |->
        IF f \in cols THEN set[f]
        ELSE IF f = "updated_at" THEN t
        ELSE row[f]]

\* a commit whose failed UPDATE is not rolled back: the row stays written
CommitNoRollback(ls, u, t1, t2, commit_ok) ==
    IF u.kind = "answer" THEN Result(ls, t2, u.out)
    ELSE IF u.kind = "insert"
    THEN IF ~UniqueLeadId(ls, u.lead) THEN Result(ls, t2, Error(u.op, "IntegrityError"))
         ELSE IF ~commit_ok THEN Result(ls, t2, Error(u.op, "OperationalError"))
         ELSE Result(Append(ls, Stamp(u.lead, t1, t2)), t2, Flash(u.op, u.done))
    ELSE LET cols == Changed(u.loaded, u.set)
             written == [ls EXCEPT ![u.row] = ExecUpdate(@, u.set, cols, t1)]
         IN  IF cols = {} THEN Result(ls, t2, Flash(u.op, u.done))
             ELSE IF ~commit_ok THEN Result(written, t2, Error(u.op, "OperationalError"))
             ELSE Result(written, t2, Flash(u.op, u.done))

\* db.session.commit() of the unit of work u on the table ls, and the
\* handler's answer after it, or after its except branch (rollback, flash
\* "Error ..."); t1 and t2 are the readings of the clock the statement takes
\* and commit_ok is whether the storage carries the statement out
Commit(ls, u, t1, t2, commit_ok) ==
    IF u.kind = "answer" THEN Result(ls, t2, u.out)
    ELSE IF u.kind = "insert"
    THEN IF ~UniqueLeadId(ls, u.lead) THEN Result(ls, t2, Error(u.op, "IntegrityError"))
         ELSE IF ~commit_ok THEN Result(ls, t2, Error(u.op, "OperationalError"))
         ELSE Result(Append(ls, Stamp(u.lead, t1, t2)), t2, Flash(u.op, u.done))
    ELSE LET cols == Changed(u.loaded, u.set)
         IN  IF cols = {} THEN Result(ls, t2, Flash(u.op, u.done))
             ELSE IF ~commit_ok THEN Result(ls, t2, Error(u.op, "OperationalError"))
             ELSE Result([ls EXCEPT ![u.row] = ExecUpdate(@, u.set, cols, t1)],
                         t2, Flash(u.op, u.done))

\* ----------------------------------------------------------- user table
AdminName == <<"a", "d", "m", "i", "n">>
DefaultPassword == <<"a", "d", "m", "i", "n">>

\* werkzeug's generate_password_hash(password): a str that names the salt
\* drawn for it and the digest of salt and password
GeneratePasswordHash(password, salt) == <<"$", salt, "$">> \o password

\* werkzeug's check_password_hash(pwhash, password)
CheckPasswordHash(pwhash, password) ==
    /\ Len(pwhash) >= 3
    /\ pwhash = GeneratePasswordHash(password, pwhash[2])

\* `not user.password_hash`: the column holds None or ''
NoHash(user) == IsNull(user.password_hash) \/ user.password_hash[1] = <<>>

\* User(username=..., role=...) after set_password(password)
NewUser(username, role, password, salt) ==
    [username      |-> username,
     password_hash |-> Some(GeneratePasswordHash(password, salt)),
     role          |-> role]

\* User.query.filter_by(username=username).first(): the row's index, 0 for None
FindUser(us, username) ==
    IF \E i \in 1..Len(us) : us[i].username = username
    THEN CHOOSE i \in 1..Len(us) :
            /\ us[i].username = username
            /\ \A j \in 1..(i - 1) : us[j].username # username
    ELSE 0

\* a username column without unique=True
AnyUsername(us, user) == TRUE

\* username is unique=True: the INSERT of a row whose username is taken raises
UniqueUsername(us, user) == \A i \in 1..Len(us) : us[i].username # user.username

\* ------------------------------------------------------------- init_db
Starting == out = Flash("init_db", "starting")

\* init_db() without its `elif not admin.password_hash` branch
init_db_norepair(us, salt, commit_ok) ==
    IF FindUser(us, AdminName) # 0 THEN [users |-> us, out |-> NoResponse]
    ELSE IF commit_ok
    THEN [users |-> Append(us, NewUser(AdminName, "admin", DefaultPassword, salt)),
          out |-> NoResponse]
    ELSE [users |-> us, out |-> Error("init_db", "OperationalError")]

\* init_db() on the user table us: the table and the outcome it leaves; an
\* exception of its commit ends the process at import
init_db_run(us, salt, commit_ok) ==
    LET i == FindUser(us, AdminName)
    IN  IF i = 0
        THEN IF commit_ok
             THEN [users |-> Append(us, NewUser(AdminName, "admin", DefaultPassword, salt)),
                   out |-> NoResponse]
             ELSE [users |-> us, out |-> Error("init_db", "OperationalError")]
        ELSE IF NoHash(us[i])
        THEN IF commit_ok
             THEN [users |-> [us EXCEPT ![i].password_hash =
                                    Some(GeneratePasswordHash(DefaultPassword, salt))],
                   out |-> NoResponse]
             ELSE [users |-> us, out |-> Error("init_db", "OperationalError")]
        ELSE [users |-> us, out |-> NoResponse]

\* --------------------------------------------------------- manage_users
\* f"{user.role.upper()}"
RoleUpper(role) ==
    CASE role = "admin" -> "ADMIN" [] role = "bd" -> "BD" [] role = "user" -> "USER"

\* the rows of the "Existing Users" table, for the users in the order `order`
UserRows(us, order) ==
    [k \in 1..Len(order) |->
        <<us[order[k]].username, RoleUpper(us[order[k]].role),
          IF us[order[k]].username = AdminName THEN "Protected Admin" ELSE "Active">>]

\* What login_required and admin_required answer, NoResponse when they let
\* the request through
Gate(sess) ==
    IF ~LoggedIn(sess) THEN ToLogin
    ELSE IF sess.role # Some("admin") THEN Flash("admin_required", "denied")
    ELSE NoResponse

\* manage_users without its two decorators
manage_users_gateless(us, sess, method, form, salt, order) ==
    LET username == Strip(form.username)
    IN  IF method = "GET"
        THEN [queries |-> 1, work |-> Answer(Listing("manage_users", UserRows(us, order)))]
        ELSE IF username = <<>> \/ form.password = <<>>
        THEN [queries |-> 1, work |-> Answer(Flash("manage_users", "required"))]
        ELSE IF FindUser(us, username) # 0
        THEN [queries |-> 2, work |-> Answer(Flash("manage_users", "exists"))]
        ELSE [queries |-> 2,
              work |-> InsertUser("manage_users",
                                  NewUser(username, form.role, form.password, salt),
                                  "user_added")]

\* A request to /manage_users: the number of queries on the user table it
\* runs before its commit (or its answer), and the unit of work it leaves
manage_users_handler(us, sess, method, form, salt, order) ==
    IF Gate(sess) # NoResponse
    THEN [queries |-> 0, work |-> Answer(Gate(sess))]
    ELSE
    LET username == Strip(form.username)
    IN  IF method = "GET"
        THEN [queries |-> 1, work |-> Answer(Listing("manage_users", UserRows(us, order)))]
        ELSE IF username = <<>> \/ form.password = <<>>
        THEN [queries |-> 1, work |-> Answer(Flash("manage_users", "required"))]
        ELSE IF FindUser(us, username) # 0
        THEN [queries |-> 2, work |-> Answer(Flash("manage_users", "exists"))]
        ELSE [queries |-> 2,
              work |-> InsertUser("manage_users",
                                  NewUser(username, form.role, form.password, salt),
                                  "user_added")]

\* db.session.commit() of the unit of work u on the user table us, and the
\* handler's answer after it or after its except branch
CommitUser(us, u, commit_ok) ==
    IF u.kind = "answer" THEN [users |-> us, out |-> u.out]
    ELSE IF ~UniqueUsername(us, u.user)
    THEN [users |-> us, out |-> Error(u.op, "IntegrityError")]
    ELSE IF ~commit_ok THEN [users |-> us, out |-> Error(u.op, "OperationalError")]
    ELSE [users |-> Append(us, u.user), out |-> Flash(u.op, u.done)]

\* ------------------------------------------------------------ new_lead
new_lead_POST(ls, sess, form, uuid) ==
    IF ~LoggedIn(sess) THEN Answer(ToLogin)
    ELSE
    LET md == OptDate(form.meeting_date)
        mt == OptTime(form.meeting_time)
    IN  IF ~md[1] \/ ~mt[1] THEN Answer(Error("new_lead", "ValueError"))
        ELSE Insert("new_lead", NewLead(form, uuid, md[2], mt[2]), "added")

\* ---------------------------------------------------------- assign_lead
\* Lead.query.filter_by(assigned_to=None).all()
Unassigned(ls) == {i \in 1..Len(ls) : IsNull(ls[i].assigned_to)}

\* the rows of a query without ORDER BY: in an order SQL leaves open
AnyOrder(sel) ==
    {o \in [1..Cardinality(sel) -> sel] : \A j, k \in DOMAIN o : j # k => o[j] # o[k]}

\* `x or "..."`
OrElse(x, y) == IF x = <<>> THEN y ELSE x

\* the <option> of a lead in the page's select
OptionOf(lead) ==
    <<lead.lead_id,
      OrElse(lead.architect_name, <<"U", "n", "k", "n", "o", "w", "n">>),
      OrElse(lead.firm_name, <<"N", "o", " ", "F", "i", "r", "m">>)>>

\* the page that offers every lead, assigned or not
assign_lead_GET_all(ls, sess, order) ==
    IF ~LoggedIn(sess) THEN Answer(ToLogin)
    ELSE Answer(Listing("assign_lead", [k \in 1..Len(ls) |-> OptionOf(ls[k])]))

\* GET /assign_lead: the page and its select of the unassigned leads
assign_lead_GET(ls, sess, order) ==
    IF ~LoggedIn(sess) THEN Answer(ToLogin)
    ELSE Answer(Listing("assign_lead", [k \in 1..Len(order) |-> OptionOf(ls[order[k]])]))

\* assign_lead without its `if not assigned_to` branch
assign_lead_unchecked(ls, sess, lead_id, target) ==
    IF ~LoggedIn(sess) THEN Answer(ToLogin)
    ELSE
    LET i == FindLead(ls, lead_id)
    IN  IF i = 0 THEN Answer(Flash("assign_lead", "not_found"))
        ELSE Update("assign_lead", i, ls[i],
                    [assigned_to |-> Some(Strip(target))], "assigned")

assign_lead_POST(ls, sess, lead_id, target) ==
    IF ~LoggedIn(sess) THEN Answer(ToLogin)
    ELSE
    LET assigned_to == Strip(target)
    IN  IF assigned_to = <<>> THEN Answer(Flash("assign_lead", "enter_name"))
        ELSE
        LET i == FindLead(ls, lead_id)
        IN  IF i = 0 THEN Answer(Flash("assign_lead", "not_found"))
            ELSE Update("assign_lead", i, ls[i],
                        [assigned_to |-> Some(assigned_to)], "assigned")

\* --------------------------------------------------- reschedule_meeting
\* reschedule_meeting with the two strptime calls ahead of the lookup
reschedule_parse_first(ls, sess, lead_id, date, time, remark) ==
    IF ~LoggedIn(sess) THEN Answer(ToLogin)
    ELSE
    LET rd == OptDate(date)
        rt == OptTime(time)
        i == FindLead(ls, lead_id)
    IN  IF ~rd[1] \/ ~rt[1] THEN Answer(Error("reschedule_meeting", "ValueError"))
        ELSE IF i = 0 THEN Answer(Flash("reschedule_meeting", "not_found"))
        ELSE Update("reschedule_meeting", i, ls[i],
                    [reschedule_date   |-> rd[2],
                     reschedule_time   |-> rt[2],
                     reschedule_remark |-> Some(Strip(remark))], "rescheduled")

\* reschedule_meeting that takes a time it cannot parse for no time
reschedule_lenient(ls, sess, lead_id, date, time, remark) ==
    IF ~LoggedIn(sess) THEN Answer(ToLogin)
    ELSE
    LET i == FindLead(ls, lead_id)
    IN  IF i = 0 THEN Answer(Flash("reschedule_meeting", "not_found"))
        ELSE
        LET rd == OptDate(date)
            rt == IF OptTime(time)[1] THEN OptTime(time) ELSE <<TRUE, NULL>>
        IN  IF ~rd[1] THEN Answer(Error("reschedule_meeting", "ValueError"))
            ELSE Update("reschedule_meeting", i, ls[i],
                        [reschedule_date   |-> rd[2],
                         reschedule_time   |-> rt[2],
                         reschedule_remark |-> Some(Strip(remark))], "rescheduled")

\* reschedule_meeting that also takes the lead back from its assignee
reschedule_unassigning(ls, sess, lead_id, date, time, remark) ==
    IF ~LoggedIn(sess) THEN Answer(ToLogin)
    ELSE
    LET i == FindLead(ls, lead_id)
    IN  IF i = 0 THEN Answer(Flash("reschedule_meeting", "not_found"))
        ELSE
        LET rd == OptDate(date)
            rt == OptTime(time)
        IN  IF ~rd[1] \/ ~rt[1] THEN Answer(Error("reschedule_meeting", "ValueError"))
            ELSE Update("reschedule_meeting", i, ls[i],
                        [reschedule_date   |-> rd[2],
                         reschedule_time   |-> rt[2],
                         reschedule_remark |-> Some(Strip(remark)),
                         assigned_to       |-> NULL], "rescheduled")

reschedule_meeting_POST(ls, sess, lead_id, date, time, remark) ==
    IF ~LoggedIn(sess) THEN Answer(ToLogin)
    ELSE
    LET i == FindLead(ls, lead_id)
    IN  IF i = 0 THEN Answer(Flash("reschedule_meeting", "not_found"))
        ELSE
        LET rd == OptDate(date)
            rt == OptTime(time)
        IN  IF ~rd[1] \/ ~rt[1] THEN Answer(Error("reschedule_meeting", "ValueError"))
            ELSE Update("reschedule_meeting", i, ls[i],
                        [reschedule_date   |-> rd[2],
                         reschedule_time   |-> rt[2],
                         reschedule_remark |-> Some(Strip(remark))], "rescheduled")

\* --------------------------------------------------------- meeting_stats
\* meeting_stats as a partial patch: a flag once set stays set
meeting_stats_patch(ls, sess, lead_id, signals) ==
    IF ~LoggedIn(sess) THEN Answer(ToLogin)
    ELSE
    LET i == FindLead(ls, lead_id)
    IN  IF i = 0 THEN Answer(Flash("meeting_stats", "not_found"))
        ELSE Update("meeting_stats", i, ls[i],
                    [not_interested  |-> ls[i].not_interested \/ "not_interested" \in signals,
                     require_letter  |-> ls[i].require_letter \/ "require_letter" \in signals,
                     email_catalogue |-> ls[i].email_catalogue \/ "email_catalogue" \in signals,
                     quotation_sent  |-> ls[i].quotation_sent \/ "quotation_sent" \in signals],
                    "stats_updated")

\* `signals` is the set of checkbox names present in request.form
meeting_stats_POST(ls, sess, lead_id, signals) ==
    IF ~LoggedIn(sess) THEN Answer(ToLogin)
    ELSE
    LET i == FindLead(ls, lead_id)
    IN  IF i = 0 THEN Answer(Flash("meeting_stats", "not_found"))
        ELSE Update("meeting_stats", i, ls[i],
                    [not_interested  |-> "not_interested" \in signals,
                     require_letter  |-> "require_letter" \in signals,
                     email_catalogue |-> "email_catalogue" \in signals,
                     quotation_sent  |-> "quotation_sent" \in signals], "stats_updated")

\* ----------------------------------------------------------- export_data
DateTimeOf(t) == <<DateOfTick(t), TickOfDay(t)>>

\* Lead.meeting_date.between(a, b); a NULL meeting_date matches nothing
MeetingBetween(row, a, b) ==
    /\ ~IsNull(row.meeting_date)
    /\ DateLeq(a, row.meeting_date[1])
    /\ DateLeq(row.meeting_date[1], b)

\* Lead.created_at.between(a, b)
CreatedBetween(row, a, b) ==
    /\ DateTimeLeq(a, DateTimeOf(row.created_at))
    /\ DateTimeLeq(DateTimeOf(row.created_at), b)

\* The query the export builds: <<TRUE, the indices of the rows it selects>>,
\* or <<FALSE>> when a strptime raises
ExportQuery(ls, export_type, start_date, end_date) ==
    IF export_type = "date_range" /\ start_date # <<>> /\ end_date # <<>>
    THEN IF ValidDate(start_date) /\ ValidDate(end_date)
         THEN <<TRUE, {i \in 1..Len(ls) :
                    MeetingBetween(ls[i], ParseDate(start_date), ParseDate(end_date))}>>
         ELSE <<FALSE>>
    ELSE IF export_type = "created_range" /\ start_date # <<>> /\ end_date # <<>>
    THEN IF ValidDate(start_date) /\ ValidDate(end_date)
         THEN <<TRUE, {i \in 1..Len(ls) :
                    CreatedBetween(ls[i], <<ParseDate(start_date), 0>>,
                                          <<ParseDate(end_date), EndOfDay>>)}>>
         ELSE <<FALSE>>
    ELSE <<TRUE, 1..Len(ls)>>

\* order_by(Lead.created_at.desc()): every order of the selected rows that is
\* descending in created_at (SQL leaves the order of ties open)
OrderBy(ls, sel) ==
    {o \in [1..Cardinality(sel) -> sel] :
        /\ \A j, k \in DOMAIN o : j # k => o[j] # o[k]
        /\ \A j, k \in DOMAIN o : j < k => ls[o[j]].created_at >= ls[o[k]].created_at}

OrEmpty(x) == IF IsNull(x) THEN <<>> ELSE x[1]
\* the flag written as the bool it is
Truth(b) == IF b THEN "True" ELSE "False"
YesNo(b) == IF b THEN "Yes" ELSE "No"

\* datetime.strftime("%Y-%m-%d %H:%M:%S"): the fraction of the second is dropped
FormatDateTime(t) == <<FormatDate(DateOfTick(t)), TickOfDay(t) \div TicksPerSec>>

Header ==
    <<"Lead ID", "Architect Name", "Firm Name", "Grade", "Client Type", "BD Name",
      "Meeting Date", "Meeting Time", "Remark", "Assigned To", "Reschedule Date",
      "Reschedule Time", "Reschedule Remark", "Not Interested", "Require Letter",
      "Email Catalogue", "Quotation Sent", "Created At", "Updated At">>

\* one dict of `data`, its values in column order
DataRow(lead) ==
    <<lead.lead_id,
      lead.architect_name,
      lead.firm_name,
      lead.grade,
      lead.client_type,
      lead.bd_name,
      IF IsNull(lead.meeting_date) THEN <<>> ELSE FormatDate(lead.meeting_date[1]),
      IF IsNull(lead.meeting_time) THEN <<>> ELSE FormatTime(lead.meeting_time[1]),
      lead.remark,
      OrEmpty(lead.assigned_to),
      IF IsNull(lead.reschedule_date) THEN <<>> ELSE FormatDate(lead.reschedule_date[1]),
      IF IsNull(lead.reschedule_time) THEN <<>> ELSE FormatTime(lead.reschedule_time[1]),
      OrEmpty(lead.reschedule_remark),
      YesNo(lead.not_interested),
      YesNo(lead.require_letter),
      YesNo(lead.email_catalogue),
      YesNo(lead.quotation_sent),
      FormatDateTime(lead.created_at),
      FormatDateTime(lead.updated_at)>>

\* df.to_excel(index=False): the header row, then one row per dict of `data`
Sheet(data) == <<Header>> \o data

\* export_data without its `if not leads` branch
export_data_always(ls, sess, export_type, start_date, end_date, order) ==
    IF ~LoggedIn(sess) THEN Answer(ToLogin)
    ELSE
    LET q == ExportQuery(ls, export_type, start_date, end_date)
    IN  IF ~q[1] THEN Answer(Error("export_data", "ValueError"))
        ELSE Answer(Document("export_data",
                        Sheet([k \in 1..Len(order) |-> DataRow(ls[order[k]])])))

export_data_POST(ls, sess, export_type, start_date, end_date, order) ==
    IF ~LoggedIn(sess) THEN Answer(ToLogin)
    ELSE
    LET q == ExportQuery(ls, export_type, start_date, end_date)
    IN  IF ~q[1] THEN Answer(Error("export_data", "ValueError"))
        ELSE IF q[2] = {} THEN Answer(Flash("export_data", "no_data"))
        ELSE Answer(Document("export_data",
                        Sheet([k \in 1..Len(order) |-> DataRow(ls[order[k]])])))

\* -------------------------------------------------------------- inputs
\* what uuid.uuid4() returns: the leading block and the rest
Uuids ==
    {[head |-> <<"a", "1">>, tail |-> <<"7">>],
     [head |-> <<"a", "1">>, tail |-> <<"9">>],
     [head |-> <<"b", "2">>, tail |-> <<"7">>]}

\* the lead_id field of a request's form
LeadIds == {<<"A", "1">>, <<"B", "2">>}

Blank == <<>>
\* "2024-03-01", "2024-3-1", "01/03/2024"; "09:05", "9:5", "09:75"
DateGood == <<<<2, 0, 2, 4>>, "-", <<0, 3>>, "-", <<0, 1>>>>
DateLoose == <<<<2, 0, 2, 4>>, "-", <<3>>, "-", <<1>>>>
DateBad == <<<<0, 1>>, "/", <<0, 3>>, "/", <<2, 0, 2, 4>>>>
TimeGood == <<<<0, 9>>, ":", <<0, 5>>>>
TimeLoose == <<<<9>>, ":", <<5>>>>
TimeBad == <<<<0, 9>>, ":", <<7, 5>>>>

FormOf(date, time) ==
    [architect_name |-> <<" ", "D">>, firm_name |-> <<>>,
     grade |-> <<"A">>, client_type |-> <<"N">>,
     bd_name |-> <<>>, meeting_date |-> date, meeting_time |-> time,
     remark |-> <<>>]

LeadForms ==
    {FormOf(DateGood, TimeGood), FormOf(DateLoose, TimeLoose),
     FormOf(DateBad, Blank), FormOf(DateGood, TimeBad)}

Targets == {<<>>, <<" ">>, <<"P">>, <<" ", "Q", " ">>}

RescheduleForms ==
    {<<Blank, Blank, <<>>>>, <<DateGood, TimeGood, <<"r", " ">>>>,
     <<DateLoose, TimeLoose, <<"r", " ">>>>,
     <<DateBad, TimeGood, <<>>>>, <<DateGood, TimeBad, <<>>>>}

SignalSets == {{}, {"require_letter"}, {"not_interested", "email_catalogue", "quotation_sent"}}

ExportForms ==
    {<<"all", Blank, Blank>>, <<"date_range", DateGood, DateGood>>,
     <<"created_range", DateGood, DateGood>>, <<"created_range", DateBad, DateGood>>}

\* ------------------------------------------------------------- actions
\* The inputs an anonymous request is tried with: login_required reads none
Given(sess, S) == IF LoggedIn(sess) THEN S ELSE {CHOOSE x \in S : TRUE}

\* The readings of the clock and the storage's verdict a unit of work meets;
\* a request that issues no statement meets none
Storage(u) ==
    IF u.kind = "insert"
    THEN {<<now, t2, TRUE>> : t2 \in ClockRead(now)} \cup {<<now, now, FALSE>>}
    ELSE IF u.kind = "update" /\ Changed(u.loaded, u.set) # {}
    THEN {<<now, now, TRUE>>, <<now, now, FALSE>>}
    ELSE {<<now, now, TRUE>>}

Idle == out = NoResponse

\* The ways the request that has built the unit of work u can end
Outcomes(u) == {Commit(leads, u, e[1], e[2], e[3]) : e \in Storage(u)}

\* the commit of u, and the answer to its request
Finish(u) ==
    \E r \in Outcomes(u) :
        /\ Len(r.leads) <= MaxLeads
        /\ r.leads # leads => commits < MaxCommits
        /\ leads' = r.leads
        /\ users' = users
        /\ now' = r.now
        /\ out' = r.out
        /\ commits' = IF r.leads # leads THEN commits + 1 ELSE commits

\* One request served from start to end, no other request in between
Serve(u) ==
    /\ Idle
    /\ Finish(u)
    /\ UNCHANGED txn

new_lead ==
    \E sess \in Sessions :
        \E form \in Given(sess, LeadForms), uuid \in Given(sess, Uuids) :
            Serve(new_lead_POST(leads, sess, form, uuid))

assign_lead ==
    \E sess \in Sessions :
        \E lead_id \in Given(sess, LeadIds), target \in Given(sess, Targets) :
            Serve(assign_lead_POST(leads, sess, lead_id, target))

assign_lead_list ==
    \E sess \in Sessions :
        \E order \in Given(sess, AnyOrder(Unassigned(leads))) :
            Serve(assign_lead_GET(leads, sess, order))

reschedule_meeting ==
    \E sess \in Sessions :
        \E lead_id \in Given(sess, LeadIds), form \in Given(sess, RescheduleForms) :
            Serve(reschedule_meeting_POST(leads, sess, lead_id, form[1], form[2], form[3]))

meeting_stats ==
    \E sess \in Sessions :
        \E lead_id \in Given(sess, LeadIds), signals \in Given(sess, SignalSets) :
            Serve(meeting_stats_POST(leads, sess, lead_id, signals))

export_data ==
    \E sess \in Sessions :
        \E form \in Given(sess, ExportForms) :
            LET q == ExportQuery(leads, form[1], form[2], form[3])
            IN  \E order \in (IF q[1] THEN OrderBy(leads, q[2]) ELSE {<<>>}) :
                    Serve(export_data_POST(leads, sess, form[1], form[2], form[3], order))

\* The response reaches the client; the server takes the next request.
respond ==
    /\ ~Idle
    /\ out.op # "init_db"
    /\ out' = NoResponse
    /\ UNCHANGED <<leads, users, now, txn, commits>>

\* Time passes.
tick ==
    /\ Idle
    /\ now < LastTick
    /\ now' = now + 1
    /\ UNCHANGED <<leads, users, out, txn, commits>>

\* ------------------------------------------- requests served concurrently
Workers == {"w1", "w2"}

\* The handler of worker w runs up to its db.session.commit().
Begin(w, u) ==
    /\ Idle
    /\ txn[w] = NoTxn
    /\ IF u.kind = "answer"
       THEN out' = u.out /\ txn' = txn
       ELSE out' = out /\ txn' = [txn EXCEPT ![w] = u]
    /\ UNCHANGED <<leads, users, now, commits>>

begin_new_lead ==
    \E w \in Workers, sess \in Sessions :
        \E form \in Given(sess, LeadForms), uuid \in Given(sess, Uuids) :
            Begin(w, new_lead_POST(leads, sess, form, uuid))

begin_assign_lead ==
    \E w \in Workers, sess \in Sessions :
        \E lead_id \in Given(sess, LeadIds), target \in Given(sess, Targets) :
            Begin(w, assign_lead_POST(leads, sess, lead_id, target))

\* Worker w's db.session.commit(), and its answer.
commit ==
    \E w \in Workers :
        /\ Idle
        /\ txn[w] # NoTxn
        /\ Finish(txn[w])
        /\ txn' = [txn EXCEPT ![w] = NoTxn]

\* ------------------------------------------------------ users' requests
UserSessions == {Anonymous, StaffSession, AdminSession}
Methods == {"GET", "POST"}
Salts == {"s", "t"}

UserForm(username, password, role) ==
    [username |-> username, password |-> password, role |-> role]

UserForms ==
    {UserForm(<<>>, <<"x">>, "bd"), UserForm(<<" ", "b">>, <<>>, "bd"),
     UserForm(<<" ", "b">>, <<"x">>, "bd"), UserForm(<<"c">>, <<"y">>, "admin"),
     UserForm(AdminName, <<"x">>, "bd")}

\* User.query.all(): the rows in an order SQL leaves open
AllUsers(us) ==
    {o \in [1..Len(us) -> 1..Len(us)] : \A j, k \in DOMAIN o : j # k => o[j] # o[k]}

StorageUser(u) == IF u.kind = "insert_user" THEN BOOLEAN ELSE {TRUE}

\* The ways the request that has built the unit of work u can end
OutcomesUser(u) == {CommitUser(users, u, commit_ok) : commit_ok \in StorageUser(u)}

FinishUser(u) ==
    \E r \in OutcomesUser(u) :
        /\ users' = r.users
        /\ out' = r.out
        /\ UNCHANGED <<leads, now, commits>>

\* One request to /manage_users served from start to end
manage_users ==
    \E sess \in UserSessions :
        \E method \in Given(sess, Methods), form \in Given(sess, UserForms),
           salt \in Given(sess, Salts), order \in Given(sess, AllUsers(users)) :
            /\ Idle
            /\ FinishUser(manage_users_handler(users, sess, method, form, salt, order).work)
            /\ UNCHANGED txn

begin_manage_users ==
    \E w \in Workers, sess \in UserSessions :
        \E form \in Given(sess, UserForms), salt \in Given(sess, Salts) :
            Begin(w, manage_users_handler(users, sess, "POST", form, salt, <<>>).work)

commit_user ==
    \E w \in Workers :
        /\ Idle
        /\ txn[w].kind = "insert_user"
        /\ FinishUser(txn[w])
        /\ txn' = [txn EXCEPT ![w] = NoTxn]

\* init_db() at import, before the first request is served
init_db ==
    /\ Starting
    /\ \E salt \in Salts, commit_ok \in BOOLEAN :
        LET r == init_db_run(users, salt, commit_ok)
        IN  users' = r.users /\ out' = r.out
    /\ UNCHANGED <<leads, now, txn, commits>>

\* The user tables init_db may find: none, or what earlier runs and earlier
\* versions of the schema left (a hash may be missing or empty)
OldAdmins ==
    {[username |-> AdminName, password_hash |-> h, role |-> r] :
        h \in {NULL, Some(<<>>), Some(GeneratePasswordHash(DefaultPassword, "s")),
               Some(GeneratePasswordHash(<<"z">>, "t"))},
        r \in {"admin", "bd"}}

OldUser == NewUser(<<"b">>, "bd", <<"x">>, "s")

StartingUsers ==
    {<<>>, <<OldUser>>} \cup {<<a>> : a \in OldAdmins}
        \cup {<<OldUser, a>> : a \in OldAdmins} \cup {<<a, OldUser>> : a \in OldAdmins}

\* db.create_all() on sqlite:///crm.db keeps the rows of an earlier run: the
\* table starts empty, or with a lead an earlier run added
Persisted ==
    {<<>>,
     <<Stamp(NewLead(FormOf(DateGood, TimeGood), [head |-> <<"a", "1">>, tail |-> <<"7">>],
                     Some(ParseDate(DateGood)), Some(ParseTime(TimeGood))), 0, 0)>>}

Init ==
    /\ leads \in Persisted
    /\ users = init_db_run(<<>>, "s", TRUE).users
    /\ now = ClockStart
    /\ out = NoResponse
    /\ txn = [w \in Workers |-> NoTxn]
    /\ commits = 0

Next ==
    \/ new_lead
    \/ assign_lead
    \/ assign_lead_list
    \/ reschedule_meeting
    \/ meeting_stats
    \/ export_data
    \/ respond
    \/ tick

Spec == Init /\ [][Next]_vars

NextConc ==
    \/ begin_new_lead
    \/ begin_assign_lead
    \/ commit
    \/ respond
    \/ tick

SpecConc == Init /\ [][NextConc]_vars

\* The server from its import on, and the requests to /manage_users
InitUsers ==
    /\ leads = <<>>
    /\ users \in StartingUsers
    /\ now = ClockStart
    /\ out = Flash("init_db", "starting")
    /\ txn = [w \in Workers |-> NoTxn]
    /\ commits = 0

NextUsers ==
    \/ init_db
    \/ manage_users
    \/ begin_manage_users
    \/ commit_user
    \/ respond

SpecUsers == InitUsers /\ [][NextUsers]_vars

\* ------------------------------------------------------------ properties
IsBlank(s) == \A k \in DOMAIN s : s[k] = " "
Known(lead_id) == \E i \in 1..Len(leads) : leads[i].lead_id = lead_id
FlagNames == {"not_interested", "require_letter", "email_catalogue", "quotation_sent"}

\* C1: whatever create-lead requests have run, one after the other or
\* overlapping, no two persisted leads have the same lead_id, and the commit
\* of a creation whose lead_id a persisted lead already has persists nothing
\* and answers with an error.
C1_LeadIdUnique ==
    /\ \A i, j \in 1..Len(leads) : i # j => leads[i].lead_id # leads[j].lead_id
    /\ \A w \in Workers :
        (txn[w].kind = "insert" /\ Known(txn[w].lead.lead_id)) =>
            \A r \in Outcomes(txn[w]) : r.leads = leads /\ r.out.status = "error"

\* A creation has just failed on the lead_id of a lead that was created
\* since the server started.
C1_CollisionRefused ==
    /\ out = Error("new_lead", "IntegrityError")
    /\ Len(leads) = 1
    /\ leads[1].created_at >= ClockStart

\* C2: a step that serves an assign call on an existing lead with a non-blank
\* target, after the clock has moved past the lead's updated_at, and answers
\* that the lead was assigned, leaves the target (trimmed) in assigned_to and
\* an updated_at greater than the one before.
C2_AssignRefreshesUpdatedAt ==
    [][\A lead_id \in LeadIds, target \in Targets :
        LET i == FindLead(leads, lead_id)
            u == assign_lead_POST(leads, StaffSession, lead_id, target)
        IN  ( /\ Idle
              /\ i # 0
              /\ ~IsBlank(target)
              /\ leads[i].updated_at < now
              /\ out' = Flash("assign_lead", "assigned")
              /\ \E r \in Outcomes(u) : r.leads = leads' /\ r.out = out' ) =>
                /\ leads'[i].assigned_to = Some(Strip(target))
                /\ leads'[i].updated_at > leads[i].updated_at]_vars

\* C3: an assign call with an empty or whitespace-only target, for a lead_id
\* that exists or not, answers with the validation error and changes no field
\* of any lead.
C3_BlankAssignChangesNothing ==
    \A lead_id \in LeadIds, target \in Targets :
        (Idle /\ IsBlank(target)) =>
            \A r \in Outcomes(assign_lead_POST(leads, StaffSession, lead_id, target)) :
                r.leads = leads /\ r.out = Flash("assign_lead", "enter_name")

\* A blank assign has just been refused while the table holds an assigned lead.
C3_BlankAssignRefused ==
    /\ out = Flash("assign_lead", "enter_name")
    /\ \E i \in 1..Len(leads) : ~IsNull(leads[i].assigned_to)

\* C4: a reschedule call for a lead_id no persisted lead has answers not
\* found and leaves the table as it is, whatever date, time and remark it
\* carries, malformed ones included.
C4_RescheduleUnknownLead ==
    \A lead_id \in LeadIds, form \in RescheduleForms :
        (Idle /\ ~Known(lead_id)) =>
            \A r \in Outcomes(reschedule_meeting_POST(leads, StaffSession, lead_id,
                                                      form[1], form[2], form[3])) :
                r.leads = leads /\ r.out = Flash("reschedule_meeting", "not_found")

\* A reschedule of an unknown lead has just been refused, the table not empty.
C4_UnknownLeadRefused ==
    /\ out = Flash("reschedule_meeting", "not_found")
    /\ leads # <<>>

\* C5: a flag update of an existing lead that succeeds leaves each of the
\* four flags true exactly if its signal was in the call, whatever the flag
\* was before; with no signal all four end false.
C5_FlagsOverwritten ==
    \A lead_id \in LeadIds, signals \in SUBSET FlagNames :
        LET i == FindLead(leads, lead_id)
        IN  (Idle /\ i # 0) =>
                \A r \in Outcomes(meeting_stats_POST(leads, StaffSession, lead_id, signals)) :
                    r.out = Flash("meeting_stats", "stats_updated") =>
                        \A f \in FlagNames : r.leads[i][f] = (f \in signals)

\* Two flag updates of the persisted lead, and nothing else, have committed:
\* the second one, with require_letter alone, has cleared the three flags
\* the first one set.
C5_FlagsCleared ==
    /\ out = Flash("meeting_stats", "stats_updated")
    /\ commits = 2
    /\ Len(leads) = 1
    /\ IsNull(leads[1].assigned_to)
    /\ IsNull(leads[1].reschedule_remark)
    /\ \A f \in FlagNames : leads[1][f] = (f = "require_letter")

\* the lead_ids of the data rows of a response, none when it has no document
Exported(o) == {o.doc[k][1] : k \in 2..Len(o.doc)}

\* the leads created on a day from d1 to d2, at whatever time of the day
CreatedOnDays(d1, d2) ==
    {i \in 1..Len(leads) :
        /\ DateLeq(d1, DateOfTick(leads[i].created_at))
        /\ DateLeq(DateOfTick(leads[i].created_at), d2)}

\* C6: a step that serves an export of the created range from d1 to d2
\* answers with the leads created from d1 00:00:00 to the end of day d2, and
\* with no others.
C6_CreatedRangeWholeDays ==
    [][\A form \in ExportForms :
        ( /\ Idle
          /\ form[1] = "created_range"
          /\ ValidDate(form[2]) /\ ValidDate(form[3])
          /\ out'.op = "export_data"
          /\ \E order \in OrderBy(leads, ExportQuery(leads, form[1], form[2], form[3])[2]) :
                out' = export_data_POST(leads, StaffSession,
                                        form[1], form[2], form[3], order).out ) =>
            Exported(out') =
                {leads[i].lead_id : i \in CreatedOnDays(ParseDate(form[2]), ParseDate(form[3]))}]_vars

\* C7: an export whose filter selects no lead answers that there is no data
\* and gives no document (an export of everything from an empty table is
\* one), and no export changes the table.
C7_ExportNoData ==
    \A form \in ExportForms :
        LET q == ExportQuery(leads, form[1], form[2], form[3])
        IN  Idle => \A order \in (IF q[1] THEN OrderBy(leads, q[2]) ELSE {<<>>}) :
                \A r \in Outcomes(export_data_POST(leads, StaffSession,
                                                   form[1], form[2], form[3], order)) :
                    /\ r.leads = leads
                    /\ (q[1] /\ q[2] = {}) =>
                            r.out = Flash("export_data", "no_data") /\ r.out.doc = <<>>

\* An export has just found the table empty.
C7_NothingToExport ==
    /\ out = Flash("export_data", "no_data")
    /\ leads = <<>>

\* C8: an export whose filter selects at least one lead gives a document of
\* the header row and one row per selected lead, and each flag cell of a data
\* row reads "Yes" if the lead's flag is set and "No" if it is not.
C8_ExportRows ==
    \A form \in ExportForms :
        LET q == ExportQuery(leads, form[1], form[2], form[3])
        IN  (Idle /\ q[1] /\ q[2] # {}) =>
            \A order \in OrderBy(leads, q[2]) :
                \A r \in Outcomes(export_data_POST(leads, StaffSession,
                                                   form[1], form[2], form[3], order)) :
                    /\ r.out.status = "document"
                    /\ Len(r.out.doc) = Cardinality(q[2]) + 1
                    /\ r.out.doc[1] = Header
                    /\ \A k \in 1..Len(order) :
                        LET row == r.out.doc[k + 1]
                            lead == leads[order[k]]
                        IN  /\ row[1] = lead.lead_id
                            /\ row[14] = (IF lead.not_interested THEN "Yes" ELSE "No")
                            /\ row[15] = (IF lead.require_letter THEN "Yes" ELSE "No")
                            /\ row[16] = (IF lead.email_catalogue THEN "Yes" ELSE "No")
                            /\ row[17] = (IF lead.quotation_sent THEN "Yes" ELSE "No")

\* An export has just given a document of two leads, flags set and not set.
C8_TwoLeadsExported ==
    /\ out.status = "document"
    /\ Len(out.doc) = Len(leads) + 1
    /\ Len(leads) = 2
    /\ \E k \in 2..Len(out.doc) : out.doc[k][15] = "Yes" /\ out.doc[k][14] = "No"
    /\ \E k \in 2..Len(out.doc) : out.doc[k][15] = "No"

Columns ==
    {"lead_id", "architect_name", "firm_name", "grade", "client_type", "bd_name",
     "meeting_date", "meeting_time", "remark", "assigned_to", "reschedule_date",
     "reschedule_time", "reschedule_remark"} \cup FlagNames \cup {"created_at", "updated_at"}

\* from the table `before` to the table `after`, nothing but the columns
\* `own` and updated_at of the lead `lead_id` has changed
OnlyChanged(before, after, lead_id, own) ==
    /\ Len(after) = Len(before)
    /\ \A j \in 1..Len(before) :
        \A f \in Columns :
            after[j][f] # before[j][f] =>
                before[j].lead_id = lead_id /\ f \in own \cup {"updated_at"}

\* The three mutations of the lead lead_id, in the six orders they can come
Mutations(lead_id) ==
    LET assign(ls) == assign_lead_POST(ls, StaffSession, lead_id, <<"P">>)
        resched(ls) == reschedule_meeting_POST(ls, StaffSession, lead_id,
                                               DateGood, TimeGood, <<"r">>)
        stats(ls) == meeting_stats_POST(ls, StaffSession, lead_id, {"require_letter"})
        run(ls, u) == Commit(ls, u, now, now, TRUE).leads
        a(ls) == run(ls, assign(ls))
        r(ls) == run(ls, resched(ls))
        m(ls) == run(ls, stats(ls))
    IN  {a(r(m(leads))), a(m(r(leads))), r(a(m(leads))),
         r(m(a(leads))), m(a(r(leads))), m(r(a(leads)))}

\* the row of an export shows the assignee, the reschedule and the two flags
ShowsAll(row) ==
    /\ row[10] = <<"P">>
    /\ row[11] = FormatDate(ParseDate(DateGood))
    /\ row[12] = FormatTime(ParseTime(TimeGood))
    /\ row[13] = <<"r">>
    /\ row[14] = "No"
    /\ row[15] = "Yes"

\* C9: an assign changes only assigned_to and updated_at of its lead, a
\* reschedule only the three reschedule columns and updated_at, a flag update
\* only the four flags and updated_at; no other column of that lead and no
\* other lead changes. So after an assign, a reschedule and a flag update
\* with require_letter alone on one lead, in whichever order, the export of
\* everything shows in the lead's row the assignee, the reschedule, Require
\* Letter "Yes" and Not Interested "No".
C9_FrameOfMutations ==
    \A lead_id \in LeadIds :
        Idle =>
        /\ \A target \in Targets :
            \A r \in Outcomes(assign_lead_POST(leads, StaffSession, lead_id, target)) :
                OnlyChanged(leads, r.leads, lead_id, {"assigned_to"})
        /\ \A form \in RescheduleForms :
            \A r \in Outcomes(reschedule_meeting_POST(leads, StaffSession, lead_id,
                                                      form[1], form[2], form[3])) :
                OnlyChanged(leads, r.leads, lead_id,
                            {"reschedule_date", "reschedule_time", "reschedule_remark"})
        /\ \A signals \in SUBSET FlagNames :
            \A r \in Outcomes(meeting_stats_POST(leads, StaffSession, lead_id, signals)) :
                OnlyChanged(leads, r.leads, lead_id, FlagNames)
        /\ Known(lead_id) =>
            \A ls \in Mutations(lead_id) :
                \A order \in OrderBy(ls, 1..Len(ls)) :
                    LET doc == export_data_POST(ls, StaffSession, "all", Blank, Blank,
                                                order).out.doc
                    IN  \E k \in 2..Len(doc) : doc[k][1] = lead_id /\ ShowsAll(doc[k])

\* An export has just shown a lead that was assigned, rescheduled and marked
\* with require_letter alone.
C9_LifecycleExported ==
    /\ out.status = "document"
    /\ commits = MaxCommits
    /\ \E k \in 2..Len(out.doc) : ShowsAll(out.doc[k])

\* C10: the lead a successful create-lead has just stored has a created_at
\* equal to its updated_at.
C10_CreatedEqualsUpdated ==
    out = Flash("new_lead", "added") =>
        leads[Len(leads)].created_at = leads[Len(leads)].updated_at

NotAdmin(sess) == IsNull(sess.user_id) \/ sess.role # Some("admin")
Taken(username) == \E i \in 1..Len(users) : users[i].username = username
HasHash(user) == ~IsNull(user.password_hash) /\ Len(user.password_hash[1]) > 0

\* C11: a request to list or to create users from a caller who is not logged
\* in, or whose role is not admin, is answered by the redirect of the gate
\* before it has run a query on the user table, and it leaves the user table
\* as it is.
C11_AdminGate ==
    Idle =>
        \A sess \in UserSessions, method \in Methods, form \in UserForms, salt \in Salts :
            NotAdmin(sess) =>
                \A order \in AllUsers(users) :
                    LET h == manage_users_handler(users, sess, method, form, salt, order)
                    IN  /\ h.queries = 0
                        /\ h.work.kind = "answer"
                        /\ h.work.out \in {ToLogin, Flash("admin_required", "denied")}
                        /\ \A r \in OutcomesUser(h.work) : r.users = users /\ r.out = h.work.out

\* A logged-in caller who is not an administrator has just been turned away,
\* an administrator having added a user before.
C11_StaffDenied ==
    /\ out = Flash("admin_required", "denied")
    /\ Taken(<<"c">>)

\* C12: no two users have the same username; a request to create a user
\* whose username is taken fails and leaves the user table as it is (hash and
\* role of the existing user included), and so does the commit of a creation
\* that another request's creation of the same username has overtaken.
C12_UsernameUnique ==
    /\ \A i, j \in 1..Len(users) : i # j => users[i].username # users[j].username
    /\ Idle =>
        \A form \in UserForms, salt \in Salts :
            Taken(Strip(form.username)) =>
                \A r \in OutcomesUser(manage_users_handler(users, AdminSession, "POST",
                                                           form, salt, <<>>).work) :
                    r.users = users /\ r.out.status \in {"required", "exists"}
    /\ \A w \in Workers :
        (txn[w].kind = "insert_user" /\ Taken(txn[w].user.username)) =>
            \A r \in OutcomesUser(txn[w]) : r.users = users /\ r.out.status = "error"

\* Of two creations of one new username that overlapped, the later commit
\* has just failed.
C12_SecondCreationRefused ==
    /\ out = Error("manage_users", "IntegrityError")
    /\ Taken(<<"b">>) \/ Taken(<<"c">>)

\* C13: the step in which init_db completes leaves a user "admin" with a
\* non-empty password hash: if there was none it appends one with role admin
\* and the default password; if there was one without a hash it gives it the
\* hash of the default password and changes nothing else; if there was one
\* with a hash it leaves the whole user table as it was.
C13_Bootstrap ==
    [][(Starting /\ out' = NoResponse) =>
        LET i == IF Taken(AdminName)
                 THEN CHOOSE k \in 1..Len(users) : users[k].username = AdminName
                 ELSE 0
        IN  /\ \E k \in 1..Len(users') :
                users'[k].username = AdminName /\ HasHash(users'[k])
            /\ i = 0 =>
                /\ Len(users') = Len(users) + 1
                /\ \A k \in 1..Len(users) : users'[k] = users[k]
                /\ users'[Len(users')].username = AdminName
                /\ users'[Len(users')].role = "admin"
                /\ CheckPasswordHash(users'[Len(users')].password_hash[1], DefaultPassword)
            /\ (i # 0 /\ ~HasHash(users[i])) =>
                /\ Len(users') = Len(users)
                /\ \A k \in 1..Len(users) : k # i => users'[k] = users[k]
                /\ users'[i].username = AdminName
                /\ users'[i].role = users[i].role
                /\ CheckPasswordHash(users'[i].password_hash[1], DefaultPassword)
            /\ (i # 0 /\ HasHash(users[i])) => users' = users]_vars

\* init_db has completed on a table whose "admin", of role bd, had no hash.
C13_AdminRepaired ==
    /\ Idle
    /\ \E k \in 1..Len(users) :
        /\ users[k].username = AdminName
        /\ users[k].role = "bd"
        /\ users[k].password_hash = Some(GeneratePasswordHash(DefaultPassword, "t"))

\* C14: a lead is stored with assigned_to null and keeps it null until a
\* step that serves a successful assign of that lead: no create, reschedule,
\* flag update, export or failed request sets it; and the page of unassigned
\* leads lists the leads whose assigned_to is null, and no others.
C14_NullUntilAssigned ==
    /\ [](Idle =>
            \A order \in AnyOrder(Unassigned(leads)) :
                \A r \in Outcomes(assign_lead_GET(leads, StaffSession, order)) :
                    /\ r.leads = leads
                    /\ r.out.status = "listing"
                    /\ Len(r.out.doc) = Cardinality({i \in 1..Len(leads) :
                                                        leads[i].assigned_to = NULL})
                    /\ {r.out.doc[k][1] : k \in 1..Len(r.out.doc)} =
                            {leads[i].lead_id : i \in {j \in 1..Len(leads) :
                                                        leads[j].assigned_to = NULL}})
    /\ [][/\ \A i \in (Len(leads) + 1)..Len(leads') : leads'[i].assigned_to = NULL
          /\ \A i \in 1..Len(leads) :
                leads'[i].assigned_to # leads[i].assigned_to =>
                    /\ out' = Flash("assign_lead", "assigned")
                    /\ \E target \in Targets :
                        /\ leads'[i].assigned_to # NULL
                        /\ \E r \in Outcomes(assign_lead_POST(leads, StaffSession,
                                                              leads[i].lead_id, target)) :
                                r.leads = leads' /\ r.out = out']_vars

\* The page of unassigned leads has just listed one of two leads, the other
\* one being assigned and rescheduled.
C14_OneLeadListed ==
    /\ out.op = "assign_lead"
    /\ out.status = "listing"
    /\ Len(out.doc) = 1
    /\ Len(leads) = 2
    /\ \E i \in 1..Len(leads) :
        leads[i].assigned_to # NULL /\ leads[i].reschedule_remark # NULL

\* C15: a step that serves a reschedule call on an existing lead, after the
\* clock has moved past the lead's updated_at, and answers that the meeting
\* was rescheduled, leaves an updated_at greater than the one before, also
\* when the call changes no value.
C15_RescheduleRefreshesUpdatedAt ==
    [][\A lead_id \in LeadIds, form \in RescheduleForms :
        LET i == FindLead(leads, lead_id)
            u == reschedule_meeting_POST(leads, StaffSession, lead_id,
                                         form[1], form[2], form[3])
        IN  ( /\ Idle
              /\ i # 0
              /\ leads[i].updated_at < now
              /\ out' = Flash("reschedule_meeting", "rescheduled")
              /\ \E r \in Outcomes(u) : r.leads = leads' /\ r.out = out' ) =>
                leads'[i].updated_at > leads[i].updated_at]_vars

\* a date written YYYY-MM-DD, a time written HH:MM: digits in these widths
WrittenDate(s) ==
    /\ Len(s) = 5
    /\ s[2] = "-" /\ s[4] = "-"
    /\ Len(s[1]) = 4 /\ Len(s[3]) = 2 /\ Len(s[5]) = 2
WrittenTime(s) ==
    /\ Len(s) = 3
    /\ s[2] = ":"
    /\ Len(s[1]) = 2 /\ Len(s[3]) = 2

\* the date or the time of a form is given and strptime raises on it
Rejected(date, time) ==
    \/ date # <<>> /\ ~ValidDate(date)
    \/ time # <<>> /\ ~ValidTime(time)

\* C16, as the code has it: a create-lead or reschedule call with a date or
\* a time that strptime rejects (a wrong separator or order, a value out of
\* range; one-digit months, days, hours and minutes are accepted) fails as a
\* whole with an error: the create stores no lead and the reschedule changes
\* no field of any lead, also when only the time is rejected.
C16_RejectedInputFails ==
    Idle =>
        /\ \A form \in LeadForms, uuid \in Uuids :
            Rejected(form.meeting_date, form.meeting_time) =>
                \A r \in Outcomes(new_lead_POST(leads, StaffSession, form, uuid)) :
                    r.leads = leads /\ r.out.status = "error"
        /\ \A lead_id \in LeadIds, form \in RescheduleForms :
            (Known(lead_id) /\ Rejected(form[1], form[2])) =>
                \A r \in Outcomes(reschedule_meeting_POST(leads, StaffSession, lead_id,
                                                          form[1], form[2], form[3])) :
                    r.leads = leads /\ r.out.status = "error"

\* A reschedule of an assigned lead has just failed on its date or time.
C16_RescheduleRejected ==
    /\ out = Error("reschedule_meeting", "ValueError")
    /\ \E i \in 1..Len(leads) : leads[i].assigned_to # NULL

\* C16, as stated: a step that serves a create-lead or a reschedule call
\* whose date is given and not written YYYY-MM-DD, or whose time is given and
\* not written HH:MM, answers with an error and changes no lead.
C16_MalformedInputFails ==
    [][/\ \A form \in LeadForms, uuid \in Uuids :
            ( /\ Idle
              /\ \/ form.meeting_date # <<>> /\ ~WrittenDate(form.meeting_date)
                 \/ form.meeting_time # <<>> /\ ~WrittenTime(form.meeting_time)
              /\ out'.op = "new_lead"
              /\ \E r \in Outcomes(new_lead_POST(leads, StaffSession, form, uuid)) :
                    r.leads = leads' /\ r.out = out' ) =>
                leads' = leads /\ out'.status = "error"
       /\ \A lead_id \in LeadIds, form \in RescheduleForms :
            ( /\ Idle
              /\ Known(lead_id)
              /\ \/ form[1] # <<>> /\ ~WrittenDate(form[1])
                 \/ form[2] # <<>> /\ ~WrittenTime(form[2])
              /\ out'.op = "reschedule_meeting"
              /\ \E r \in Outcomes(reschedule_meeting_POST(leads, StaffSession, lead_id,
                                                           form[1], form[2], form[3])) :
                    r.leads = leads' /\ r.out = out' ) =>
                leads' = leads /\ out'.status = "error"]_vars

\* the units of work the three mutations of the lead lead_id can build
MutationUnits(lead_id) ==
    {assign_lead_POST(leads, StaffSession, lead_id, target) : target \in Targets}
    \cup {reschedule_meeting_POST(leads, StaffSession, lead_id, form[1], form[2], form[3]) :
            form \in RescheduleForms}
    \cup {meeting_stats_POST(leads, StaffSession, lead_id, signals) : signals \in SignalSets}

\* C17: an assign, a reschedule or a flag update of a lead either fails,
\* reports an error and leaves every lead as it was before, or succeeds and
\* then the lead holds every value the operation set, and, where a value has
\* changed, the refreshed updated_at with it: no outcome holds a part of the
\* changes, or a change without the refresh.
C17_MutationAtomic ==
    Idle =>
        \A lead_id \in LeadIds :
            \A u \in MutationUnits(lead_id) :
                \A r \in Outcomes(u) :
                    /\ u.kind = "answer" => r.leads = leads
                    /\ u.kind = "update" =>
                        \/ r.out.status = "error" /\ r.leads = leads
                        \/ /\ r.out.status # "error"
                           /\ OnlyChanged(leads, r.leads, lead_id, DOMAIN u.set)
                           /\ \A f \in DOMAIN u.set : r.leads[u.row][f] = u.set[f]
                           /\ r.leads # leads => r.leads[u.row].updated_at = now

\* The commit of a flag update has just failed.
C17_FlagCommitFailed ==
    /\ out = Error("meeting_stats", "OperationalError")
    /\ leads # <<>>

\* C18: when assign requests of two workers on one lead interleave, none is
\* refused for the other's sake, and a step in which a worker commits its
\* assign and answers that the lead was assigned leaves the lead assigned to
\* that worker's target: the last to commit wins.
C18_LastWriterWins ==
    [][\A w \in Workers :
        ( /\ txn[w] # NoTxn
          /\ txn'[w] = NoTxn
          /\ txn[w].kind = "update"
          /\ txn[w].op = "assign_lead"
          /\ out' = Flash("assign_lead", txn[w].done) ) =>
            leads'[txn[w].row].assigned_to = txn[w].set.assigned_to]_vars

\* C19: no step, whichever request it serves and however the request ends,
\* removes a lead or changes the lead_id or the created_at of a lead there
\* is: the table only grows at its end.
C19_IdentityKept ==
    [][/\ Len(leads') >= Len(leads)
       /\ \A i \in 1..Len(leads) :
            /\ leads'[i].lead_id = leads[i].lead_id
            /\ leads'[i].created_at = leads[i].created_at]_vars

\* A lead has been created next to another, which has been assigned and
\* flagged after the clock moved on.
C19_LeadMutatedLater ==
    /\ Len(leads) = 2
    /\ \E i \in 1..Len(leads) :
        /\ leads[i].assigned_to # NULL
        /\ leads[i].require_letter
        /\ leads[i].updated_at = LastTick
        /\ leads[i].created_at < LastTick

\* C20: every lead has updated_at >= created_at, and no step takes the
\* updated_at of a lead back (the clock does not go back).
C20_UpdatedAtMonotone ==
    /\ [](\A i \in 1..Len(leads) : leads[i].updated_at >= leads[i].created_at)
    /\ [][\A i \in 1..Len(leads) : leads'[i].updated_at >= leads[i].updated_at]_vars

\* A lead created while the server runs has been rescheduled at a later
\* reading of the clock.
C20_UpdatedAfterCreated ==
    \E i \in 1..Len(leads) :
        /\ leads[i].created_at >= ClockStart
        /\ leads[i].updated_at > leads[i].created_at
        /\ leads[i].reschedule_remark # NULL

====
